---- MODULE Spec2Model ----
(***************************************************************************)
(* A model of the ingestion pipeline of scrape_news: persistence of        *)
(* scraped candidates (DataPipeline.process_articles over a SQLAlchemy     *)
(* session), the crawlers (BaseScraper, BloombergScraper, CNBCScraper),    *)
(* the HTTP retry policy and the lazily loaded ticker registry.            *)
(*                                                                         *)
(* The module holds several specifications over one set of variables;      *)
(* each specification drives one component and leaves the variables of     *)
(* the other components at their initial values.                           *)
(***************************************************************************)
EXTENDS Integers, Sequences, FiniteSets, TLC

VARIABLES
    articles,   \* committed rows of table articles (set of row records)
    run,        \* run[p]: the process_articles call of caller p and its session
    begin,      \* begin[p]: the committed rows when caller p's current call began
    prev,       \* prev[p]: candidates and outcome of caller p's previous call
    pool,       \* one call of BaseScraper.scrape_articles_concurrently
    fetch,      \* one session.get(url) through the session's HTTP adapter
    crawl,      \* one call of a scraper's scrape_all
    glob,       \* helpers._STOCK_TICKERS_CACHE: 0 for None, else the dict it names
    dicts,      \* dicts[d]: the symbols held by dict object d
    ld,         \* ld[t]: the call of load_idx_stocks in thread t
    ext,        \* one call of helpers.extract_stock_tickers
    art,        \* one call of a scraper's scrape_article and what is stored of it
    sent,       \* one text on its way through SentimentAnalyzer
    enr,        \* one call of DataPipeline._analyze_sentiments and its session
    sto,        \* articles and ticker_sentiments as enrichment runs see and write them
    scr,        \* one call of StockScreener.generate_signals and the signals table
    sch         \* the scheduler of scraper/scheduler.py and its scrape job

pipeVars == <<articles, run, begin, prev>>

crawlerVars == <<pool, fetch, crawl>>

registryVars == <<glob, dicts, ld>>

enrichVars == <<ext, art, sent, enr>>

signalVars == <<sto, scr, sch>>

vars == <<articles, run, begin, prev, pool, fetch, crawl, glob, dicts, ld, ext, art, sent, enr,
         sto, scr, sch>>

\* What a step of one component leaves alone: the state of the others.
PipeFrame == UNCHANGED <<crawlerVars, registryVars, enrichVars, signalVars>>

PoolFrame == UNCHANGED <<pipeVars, fetch, crawl, registryVars, enrichVars, signalVars>>

FetchFrame == UNCHANGED <<pipeVars, pool, crawl, registryVars, enrichVars, signalVars>>

CrawlFrame == UNCHANGED <<pipeVars, pool, fetch, registryVars, enrichVars, signalVars>>

RegistryFrame == UNCHANGED <<pipeVars, crawlerVars, enrichVars, signalVars>>

ExtractFrame == UNCHANGED <<pipeVars, crawlerVars, art, sent, enr, signalVars>>

ArticleFrame == UNCHANGED <<pipeVars, crawlerVars, registryVars, ext, sent, enr, signalVars>>

SentimentFrame == UNCHANGED <<pipeVars, crawlerVars, registryVars, ext, art, enr, signalVars>>

EnrichFrame == UNCHANGED <<pipeVars, crawlerVars, registryVars, ext, art, sent, signalVars>>

StoreFrame == UNCHANGED <<pipeVars, crawlerVars, registryVars, enrichVars, scr, sch>>

ScreenFrame == UNCHANGED <<pipeVars, crawlerVars, registryVars, enrichVars, sto, sch>>

SchedulerFrame == UNCHANGED <<pipeVars, crawlerVars, registryVars, enrichVars, sto, scr>>

(***************************************************************************)
(* Bounds of the model.                                                    *)
(***************************************************************************)
NumUrls == 2
MaxBatch == 2
MaxTasks == 3
MaxWidth == 2
MaxLinks == 2
MaxLimit == 2
MaxPages == 2
NumSymbols == 2
MaxWords == 2
NumDates == 2
MaxWindows == 2
Grid == 4
MaxHits == 7
MaxTickers == 2
MaxRuns == 3
MaxArts == 4
MaxFires == 3

Urls == 1..NumUrls

\* The callers of process_articles: two pipeline instances (CLI run, scheduler job).
Procs == {1, 2}

\* articles_data: a list of candidates, identified by their url; a url may repeat.
Batches == UNION {[1..n -> Urls] : n \in 0..MaxBatch}

Range(s) == {s[k] : k \in DOMAIN s}

(***************************************************************************)
(* The store.  A row is [url, by, idx, enriched]: by = <<p, n>> names the  *)
(* n-th call of caller p that inserted it (<<0, 0>> for rows that were     *)
(* there before), idx the position of the candidate in that call's list.   *)
(* Rows are told apart by (by, idx), as the database tells them apart by   *)
(* their primary key, so two rows may hold the same url unless the         *)
(* uniqueness constraint forbids it.                                       *)
(***************************************************************************)
Row(u, p, n, k) == [url |-> u, by |-> <<p, n>>, idx |-> k, enriched |-> FALSE]

OldRow(u) == [url |-> u, by |-> <<0, 0>>, idx |-> u, enriched |-> TRUE]

UrlsOf(rows) == {r.url : r \in rows}

IdleRun == [pc |-> "idle", cands |-> <<>>, i |-> 1, pending |-> {},
            count |-> 0, forProc |-> {}, ret |-> 0, cause |-> "none", no |-> 0]

\* Session state visible to a query of caller p: the committed rows and the rows
\* its own transaction has flushed (db.flush() after db.add()).
Visible(p) == articles \cup run[p].pending

\* A variant in which a query sees the committed rows only.
QueryFirstCommittedOnly(p, u) == \E r \in articles : r.url = u

\* A variant that looks for the url among the rows of the current batch only.
QueryFirstBatchOnly(p, u) == \E r \in run[p].pending : r.url = u

\* db.query(Article).filter(Article.url == url).first()
QueryFirst(p, u) == \E r \in Visible(p) : r.url = u

\* A variant without the uniqueness constraint.
UniqueViolationNone(p, u) == FALSE

\* Column(String(500), unique=True): an INSERT of a url that a committed row or a
\* row of the same transaction holds raises IntegrityError.
UniqueViolation(p, u) == \E r \in Visible(p) : r.url = u

\* An INSERT of a url that another open transaction has inserted waits for that
\* transaction to end (the unique index entry is locked).
LockedByOther(p, u) == \E q \in Procs \ {p} : \E r \in run[q].pending : r.url = u

\* The loop's next position: the following candidate, or the commit after the last.
Advance(r) ==
    [r EXCEPT !.i = r.i + 1,
              !.pc = IF r.i + 1 > Len(r.cands) THEN "commit" ELSE "check"]

\* get_db: except -> db.rollback(); raise.  The session's uncommitted rows are gone.
Raise(r, why) == [r EXCEPT !.pc = "raised", !.cause = why, !.pending = {}]

\* return new_articles_count
ReturnValue(r) == r.count

\* A variant that commits each row as it is flushed.
FlushTargetCommitted(p, row) == [store |-> articles \cup {row}, pending |-> run[p].pending]

\* db.add(article); db.flush(): the row is in the transaction, not yet committed.
FlushTarget(p, row) == [store |-> articles, pending |-> run[p].pending \cup {row}]

(***************************************************************************)
(* process_articles, one action per step of the call.                      *)
(***************************************************************************)

\* The call begins: if not articles_data: return 0; else the loop starts.
Call(p, cands) ==
    /\ prev' = [prev EXCEPT ![p] = [cands |-> run[p].cands,
                                    ok |-> run[p].pc = "returned"]]
    /\ begin' = [begin EXCEPT ![p] = articles]
    /\ run' = [run EXCEPT ![p] =
                 [IdleRun EXCEPT !.no = run[p].no + 1,
                                 !.cands = cands,
                                 !.pc = IF cands = <<>> THEN "returned" ELSE "check"]]
    /\ UNCHANGED articles

\* A caller's first call of process_articles.
Begin(p, cands) ==
    /\ run[p].pc = "idle"
    /\ Call(p, cands)
    /\ PipeFrame

\* The same caller calls process_articles a second time, after its first call ended.
Again(p, cands) ==
    /\ run[p].pc \in {"returned", "raised"}
    /\ run[p].no = 1
    /\ Call(p, cands)
    /\ PipeFrame

\* existing = db.query(...).first(); if existing: continue
Check(p) ==
    /\ run[p].pc = "check"
    /\ run' = [run EXCEPT ![p] =
                 IF QueryFirst(p, run[p].cands[run[p].i])
                 THEN Advance(run[p])
                 ELSE [run[p] EXCEPT !.pc = "insert"]]
    /\ UNCHANGED <<articles, begin, prev>>
    /\ PipeFrame

\* article = Article(**article_data); db.add(article); db.flush();
\* articles_for_processing.append(article); new_articles_count += 1
Insert(p) ==
    /\ run[p].pc = "insert"
    /\ LET u == run[p].cands[run[p].i]
           row == Row(u, p, run[p].no, run[p].i)
       IN /\ ~LockedByOther(p, u)
          /\ IF UniqueViolation(p, u)
             THEN /\ run' = [run EXCEPT ![p] = Raise(run[p], "integrity")]
                  /\ UNCHANGED articles
             ELSE /\ articles' = FlushTarget(p, row).store
                  /\ run' = [run EXCEPT ![p] =
                               Advance([run[p] EXCEPT
                                          !.pending = FlushTarget(p, row).pending,
                                          !.forProc = run[p].forProc \cup {row},
                                          !.count = run[p].count + 1])]
    /\ UNCHANGED <<begin, prev>>
    /\ PipeFrame

\* db.commit(); if not articles_for_processing: return 0
Commit(p) ==
    /\ run[p].pc = "commit"
    /\ articles' = articles \cup run[p].pending
    /\ run' = [run EXCEPT ![p] =
                 IF run[p].forProc = {}
                 THEN [run[p] EXCEPT !.pc = "returned", !.ret = 0, !.pending = {}]
                 ELSE [run[p] EXCEPT !.pc = "enrich", !.pending = {}]]
    /\ UNCHANGED <<begin, prev>>
    /\ PipeFrame

\* self._extract_tickers(...); self._analyze_sentiments(...); return new_articles_count
Enrich(p) ==
    /\ run[p].pc = "enrich"
    /\ articles' = {IF \E f \in run[p].forProc : f.by = r.by /\ f.idx = r.idx
                    THEN [r EXCEPT !.enriched = TRUE] ELSE r : r \in articles}
    /\ run' = [run EXCEPT ![p] = [run[p] EXCEPT !.pc = "returned",
                                                !.ret = ReturnValue(run[p])]]
    /\ UNCHANGED <<begin, prev>>
    /\ PipeFrame

\* An exception in ticker extraction or sentiment analysis leaves the call after
\* the articles were committed.
EnrichFail(p) ==
    /\ run[p].pc = "enrich"
    /\ run' = [run EXCEPT ![p] = Raise(run[p], "enrich")]
    /\ UNCHANGED <<articles, begin, prev>>
    /\ PipeFrame

\* The connection is lost during a query, a flush or the commit: the statement
\* raises and the transaction is rolled back.
StoreFailure(p) ==
    /\ run[p].pc \in {"check", "insert", "commit"}
    /\ run' = [run EXCEPT ![p] = Raise(run[p], "connection")]
    /\ UNCHANGED <<articles, begin, prev>>
    /\ PipeFrame

PipeWork(p) ==
    \/ Check(p)
    \/ Insert(p)
    \/ Commit(p)
    \/ Enrich(p)
    \/ EnrichFail(p)
    \/ StoreFailure(p)

\* A store that honours the uniqueness constraint (at most one row per url) and
\* no call in progress.
InitPipe ==
    /\ articles \in {{OldRow(u) : u \in S} : S \in SUBSET Urls}
    /\ run = [p \in Procs |-> IdleRun]
    /\ begin = [p \in Procs |-> {}]
    /\ prev = [p \in Procs |-> [cands |-> <<>>, ok |-> FALSE]]

\* The pipeline at rest, for the specifications of the other components.
PipeAtRest ==
    /\ articles = {}
    /\ run = [p \in Procs |-> IdleRun]
    /\ begin = [p \in Procs |-> {}]
    /\ prev = [p \in Procs |-> [cands |-> <<>>, ok |-> FALSE]]

IdlePool == [pc |-> "idle", n |-> 0, workers |-> 1, task |-> <<>>,
             seen |-> {}, results |-> <<>>]

IdleFetch == [pc |-> "idle", scraper |-> "none", left |-> 0, log |-> <<>>]

IdleCrawl == [pc |-> "idle", scraper |-> "none", limit |-> 0, maxPages |-> 0,
              cats |-> <<>>, c |-> 1, k |-> 1, out |-> <<>>, pages |-> <<>>,
              found |-> <<>>, tried |-> <<>>]

\* The threads that may call load_idx_stocks at the same time (the scheduler's job
\* thread, a request thread of the API).
Threads == {1, 2}

IdleLoad == [pc |-> "idle", k |-> 1, ref |-> 0, seen |-> {}]

\* The crawler at rest, for the specifications of the other components.
CrawlerAtRest ==
    /\ pool = IdlePool
    /\ fetch = IdleFetch
    /\ crawl = IdleCrawl

\* import of src.utils.helpers: _STOCK_TICKERS_CACHE = None, nobody loading.
InitRegistry ==
    /\ glob = 0
    /\ dicts = [d \in Threads |-> {}]
    /\ ld = [t \in Threads |-> IdleLoad]

IdleExtract == [pc |-> "idle", text |-> <<>>, out |-> <<>>]

IdleSentiment == [pc |-> "idle", via |-> "batch", text |-> <<>>, n |-> 0,
                  avg |-> <<0, 0, 0>>, raw |-> 0, pos |-> 0, neg |-> 0,
                  score |-> 0, label |-> "neutral", confidence |-> 0]

IdleEnrich == [pc |-> "idle", n |-> 0, tickers |-> <<>>, doc |-> <<>>, i |-> 1, j |-> 1,
               fields |-> {}, rows |-> {},
               committed |-> [fields |-> {}, rows |-> {}]]

\* An Optional[str]: None, or a string (a sequence of characters).
NoneStr == [some |-> FALSE, text |-> <<>>]

IdleArticle == [pc |-> "idle", scraper |-> "none", urlTs |-> 0,
                page |-> [title |-> <<>>, body |-> <<>>,
                          jsonld |-> 0, time |-> 0, meta |-> 0, text |-> 0],
                title |-> NoneStr, content |-> NoneStr,
                cand |-> [title |-> <<>>, content |-> <<>>, published |-> 0, scraped |-> 0],
                stored |-> [title |-> <<>>, content |-> <<>>, published |-> 0, scraped |-> 0]]

\* The enrichment helpers at rest: no call in progress.
EnrichAtRest ==
    /\ ext = IdleExtract
    /\ art = IdleArticle
    /\ sent = IdleSentiment
    /\ enr = IdleEnrich

\* An article that is not in the table.
NoArticle == [present |-> FALSE, tickers |-> 0, value |-> "none", writes |-> 0,
              corrected |-> FALSE]

IdleJob == [pc |-> "idle", kind |-> "none", mine |-> {}, tick |-> [a \in Urls |-> 0]]

\* An empty database and no run of the pipeline or of the analyze command.
EmptyStore == [arts |-> [a \in Urls |-> NoArticle],
               ts |-> [a \in Urls |-> [k \in 1..MaxTickers |-> 0]],
               job |-> [p \in Procs |-> IdleJob],
               runs |-> 0]

\* The result None of _generate_stock_signal.
NoSignal == [type |-> "none", strength |-> 0, avg |-> 0, count |-> 0]

IdleScreen == [pc |-> "idle", signals |-> <<>>, before |-> <<>>, k |-> 1,
               arts |-> <<>>, last |-> NoSignal, pending |-> <<>>]

IdleScheduler == [pc |-> "idle", workers |-> 1, inst |-> <<>>, fires |-> 0,
                  ended |-> <<>>, busy |-> 0, submitted |-> TRUE, propagated |-> FALSE]

\* The store of enriched articles, the screener and the scheduler at rest.
SignalAtRest ==
    /\ sto = EmptyStore
    /\ scr = IdleScreen
    /\ sch = IdleScheduler

\* Initial states of the specifications of process_articles: any store, nothing
\* else in progress.
InitStore == InitPipe /\ CrawlerAtRest /\ InitRegistry /\ EnrichAtRest /\ SignalAtRest

\* Initial state of the specifications of the crawler and of the registry: a fresh
\* process.
InitAtRest == PipeAtRest /\ CrawlerAtRest /\ InitRegistry /\ EnrichAtRest /\ SignalAtRest

\* One caller, two calls in sequence.
NextSequential ==
    \/ \E cands \in Batches : Begin(1, cands)
    \/ \E cands \in Batches : Again(1, cands)
    \/ PipeWork(1)

SpecSequential == InitStore /\ [][NextSequential]_vars

\* Two callers against the same store, one call each, in any interleaving.
NextConcurrent ==
    \E p \in Procs :
        \/ \E cands \in Batches : Begin(p, cands)
        \/ PipeWork(p)

SpecConcurrent == InitStore /\ [][NextConcurrent]_vars

(***************************************************************************)
(* Properties of process_articles.                                         *)
(***************************************************************************)

\* The committed rows that the current call of caller p inserted.
Mine(p) == {r \in articles : r.by = <<p, run[p].no>>}

Unenriched(rows) == {[r EXCEPT !.enriched = FALSE] : r \in rows}

\* C1: under any interleaving of two concurrent process_articles calls on the same
\* store, no two committed article rows hold the same url.
C1_NoDoubleInsert ==
    \A r1 \in articles : \A r2 \in articles : r1.url = r2.url => r1 = r2

\* Both callers raced on a url: one committed its row, the other's INSERT of the
\* same url was refused by the uniqueness constraint.
C1_Witness ==
    \E p \in Procs : \E q \in Procs \ {p} :
        /\ run[p].cause = "integrity"
        /\ \E r \in articles : r.by = <<q, 1>> /\ r.url = run[p].cands[run[p].i]

\* C2: a second call with the same candidates, after a first call that returned,
\* changes no stored row, inserts nothing, returns 0 and hits no constraint.
C2_Idempotent ==
    (run[1].no = 2 /\ prev[1].ok /\ prev[1].cands = run[1].cands) =>
        /\ articles = begin[1]
        /\ run[1].pending = {}
        /\ run[1].pc = "returned" => run[1].ret = 0
        /\ run[1].pc = "raised" => run[1].cause = "connection"
        /\ run[1].pc # "enrich"

\* The second call returned after a first call that had inserted rows.
C2_Witness ==
    /\ run[1].no = 2 /\ prev[1].ok /\ prev[1].cands = run[1].cands
    /\ run[1].pc = "returned"
    /\ \E r \in articles : r.by = <<1, 1>>

\* C3: when a call returns, the stored urls are the urls stored before plus the
\* candidates' urls, every row stored before is still there unchanged, the count
\* returned is the number of distinct candidate urls that were not stored, each url
\* is stored once, and a url repeated in the batch raises no constraint violation.
C3_Postcondition ==
    /\ run[1].pc = "returned" =>
          /\ UrlsOf(articles) = UrlsOf(begin[1]) \cup Range(run[1].cands)
          /\ begin[1] \subseteq articles
          /\ run[1].ret = Cardinality(Range(run[1].cands) \ UrlsOf(begin[1]))
          /\ \A u \in Urls : Cardinality({r \in articles : r.url = u}) <= 1
    /\ run[1].cause # "integrity"

\* A call returned 1 for a batch that names one new url twice.
C3_Witness ==
    /\ run[1].pc = "returned"
    /\ Len(run[1].cands) = 2
    /\ run[1].cands[1] = run[1].cands[2]
    /\ run[1].cands[1] \notin UrlsOf(begin[1])
    /\ run[1].ret = 1

\* C4: the rows a call inserts are committed together or not at all: while the
\* loop runs none is committed, a call that failed on the store (constraint
\* violation, connection loss) has raised and left none committed, and once any
\* is committed all of them are.
C4_AllOrNothing ==
    \A p \in Procs :
        /\ Mine(p) # {} =>
              /\ run[p].pc \in {"enrich", "returned", "raised"}
              /\ run[p].cause \notin {"integrity", "connection"}
              /\ Unenriched(Mine(p)) = run[p].forProc
              /\ Range(run[p].cands) \subseteq UrlsOf(articles)
        /\ run[p].cause \in {"integrity", "connection"} =>
              run[p].pc = "raised" /\ Mine(p) = {}

\* A call lost the connection after it had flushed a row of a two-row batch.
C4_Witness ==
    \E p \in Procs :
        /\ run[p].pc = "raised"
        /\ run[p].cause = "connection"
        /\ run[p].forProc # {}
        /\ Len(run[p].cands) = 2
        /\ Mine(p) = {}

(***************************************************************************)
(* BaseScraper.scrape_articles_concurrently: one future per url on a        *)
(* ThreadPoolExecutor(max_workers=MAX_WORKERS), gathered with as_completed. *)
(* A task is named by the position of its url in the list; pool.workers is  *)
(* the configured MAX_WORKERS.  A task ends "ok" (scrape_func returned a    *)
(* dictionary), "none" (it returned None: the fetch failed or extraction    *)
(* rejected the page) or "exc" (it raised).                                 *)
(***************************************************************************)
Done == {"ok", "none", "exc"}

Running(pl) == {t \in 1..pl.n : pl.task[t] = "running"}

\* A variant that starts a thread for every url submitted.
CanStartUnbounded(pl) == TRUE

\* ThreadPoolExecutor(max_workers=MAX_WORKERS): a queued task starts only while
\* fewer than max_workers threads are busy.
CanStart(pl) == Cardinality(Running(pl)) < pl.workers

\* A variant without the try/except around future.result().
AfterCollectPropagates(pl, t) ==
    IF pl.task[t] = "exc"
    THEN [pl EXCEPT !.seen = pl.seen \cup {t}, !.pc = "raised"]
    ELSE [pl EXCEPT !.seen = pl.seen \cup {t},
                    !.results = IF pl.task[t] = "ok"
                                THEN Append(pl.results, t) ELSE pl.results]

\* try: data = future.result(); if data: results.append(data)
\* except Exception as e: logger.error(...)
AfterCollect(pl, t) ==
    [pl EXCEPT !.seen = pl.seen \cup {t},
               !.results = IF pl.task[t] = "ok"
                           THEN Append(pl.results, t) ELSE pl.results]

\* results = []; if not urls: return results; executor.submit(scrape_func, url) for
\* every url.
Submit(n, w) ==
    /\ pool.pc = "idle"
    /\ pool' = [IdlePool EXCEPT !.n = n, !.workers = w,
                                !.task = [t \in 1..n |-> "queued"],
                                !.pc = IF n = 0 THEN "returned" ELSE "running"]
    /\ PoolFrame

\* A worker thread takes the oldest queued work item.
StartTask(t) ==
    /\ pool.pc = "running"
    /\ pool.task[t] = "queued"
    /\ \A j \in 1..(t - 1) : pool.task[j] # "queued"
    /\ CanStart(pool)
    /\ pool' = [pool EXCEPT !.task[t] = "running"]
    /\ PoolFrame

\* scrape_func(url) ends in its thread.
FinishTask(t, o) ==
    /\ pool.pc = "running"
    /\ pool.task[t] = "running"
    /\ pool' = [pool EXCEPT !.task[t] = o]
    /\ PoolFrame

\* for future in as_completed(future_to_url): the next finished future, in the
\* order of completion or any order among the finished ones.
Collect(t) ==
    /\ pool.pc = "running"
    /\ pool.task[t] \in Done
    /\ t \notin pool.seen
    /\ pool' = AfterCollect(pool, t)
    /\ PoolFrame

\* Every future was gathered: the with block ends and results is returned.
PoolReturn ==
    /\ pool.pc = "running"
    /\ pool.seen = 1..pool.n
    /\ pool' = [pool EXCEPT !.pc = "returned"]
    /\ PoolFrame

NextPool ==
    \/ \E n \in 0..MaxTasks : \E w \in 1..MaxWidth : Submit(n, w)
    \/ \E t \in 1..pool.n : StartTask(t)
    \/ \E t \in 1..pool.n : \E o \in Done : FinishTask(t, o)
    \/ \E t \in 1..pool.n : Collect(t)
    \/ PoolReturn

SpecPool == InitAtRest /\ [][NextPool]_vars

Occurrences(seq, x) == Cardinality({k \in DOMAIN seq : seq[k] = x})

\* C5: whatever tasks fail and in whatever order the tasks complete, the call does
\* not raise, and when it returns every task has run to its end and the result
\* holds one entry for each task that succeeded and none for a task that failed.
C5_TaskIsolation ==
    /\ pool.pc # "raised"
    /\ \A k \in DOMAIN pool.results : pool.task[pool.results[k]] = "ok"
    /\ pool.pc = "returned" =>
          \A t \in 1..pool.n :
              /\ pool.task[t] \in Done
              /\ Occurrences(pool.results, t) = IF pool.task[t] = "ok" THEN 1 ELSE 0

\* A call returned the one success of three tasks, of which one raised and one
\* was rejected.
C5_Witness ==
    /\ pool.pc = "returned"
    /\ pool.n = 3
    /\ pool.task[1] = "exc" /\ pool.task[2] = "none" /\ pool.task[3] = "ok"
    /\ pool.results = <<3>>

\* C6: at no time do more tasks execute than the configured width of the pool.
C6_BoundedWidth == Cardinality(Running(pool)) <= pool.workers

\* More urls than workers: the pool is full and a task waits in the queue.
C6_Witness ==
    /\ pool.n > pool.workers
    /\ Cardinality(Running(pool)) = pool.workers
    /\ \E t \in 1..pool.n : pool.task[t] = "queued"

(***************************************************************************)
(* One session.get(url).  BaseScraper mounts HTTPAdapter(max_retries=       *)
(* Retry(total=3, status_forcelist=[429, 500, 502, 503, 504])) on its       *)
(* session; CNBCScraper builds a plain requests.Session, whose adapter      *)
(* retries nothing.  Retry counts retries, not requests: every retry takes  *)
(* one off total, and the request fails once total falls below zero.        *)
(* fetch.log holds what each request met: a response [status, ra] (ra: it   *)
(* carries a Retry-After header), or status 0 for a connection failure.     *)
(***************************************************************************)
RetryTotal == 3

StatusForcelist == {429, 500, 502, 503, 504}

\* The statuses for which Retry honours a Retry-After header
\* (respect_retry_after_header is left at its default, True).
RetryAfterStatusCodes == {413, 429, 503}

Statuses == {200, 404, 413, 429, 500, 501, 503}

Responses == {[status |-> 0, ra |-> FALSE]}
             \cup [status : Statuses, ra : BOOLEAN]

\* Retry.total of the adapter the scraper's session sends through.
TotalOf(sc) == IF sc = "bloomberg" THEN RetryTotal ELSE 0

ForcelistOf(sc) == IF sc = "bloomberg" THEN StatusForcelist ELSE {}

\* A variant that allows one retry more.
ExhaustedLate(left) == left < -1

\* Retry.is_exhausted, asked after a retry was counted.
Exhausted(left) == left < 0

\* Retry.is_retry for a GET: the status is in status_forcelist, or retries are
\* left and the response carries Retry-After with a status that honours it.
IsRetry(sc, r, left) ==
    \/ r.status \in ForcelistOf(sc)
    \/ left # 0 /\ r.ra /\ r.status \in RetryAfterStatusCodes

\* What the adapter does with the outcome r of a request: count a retry and send
\* again, give up (MaxRetryError), or hand the response to raise_for_status().
AfterRequest(f, r) ==
    LET g == [f EXCEPT !.log = Append(f.log, r)]
    IN IF r.status = 0 \/ IsRetry(f.scraper, r, f.left)
       THEN IF Exhausted(f.left - 1)
            THEN [g EXCEPT !.pc = "failed"]
            ELSE [g EXCEPT !.left = f.left - 1]
       ELSE [g EXCEPT !.pc = IF r.status >= 400 THEN "failed" ELSE "ok"]

\* response = self.session.get(url, timeout=REQUEST_TIMEOUT)
StartFetch(sc) ==
    /\ fetch.pc = "idle"
    /\ fetch' = [IdleFetch EXCEPT !.pc = "sending", !.scraper = sc, !.left = TotalOf(sc)]
    /\ FetchFrame

\* One request goes out and meets r.
Request(r) ==
    /\ fetch.pc = "sending"
    /\ fetch' = AfterRequest(fetch, r)
    /\ FetchFrame

\* The fetch is over; the scraper goes on to its next url.
NextUrl ==
    /\ fetch.pc \in {"ok", "failed"}
    /\ fetch' = IdleFetch
    /\ FetchFrame

NextFetch ==
    \/ \E sc \in {"bloomberg", "cnbc"} : StartFetch(sc)
    \/ \E r \in Responses : Request(r)
    \/ NextUrl

SpecFetch == InitAtRest /\ [][NextFetch]_vars

Attempts == Len(fetch.log)

\* A 4xx status other than 429.
ClientError(r) == r.status \in 400..499 /\ r.status # 429

\* C7 as stated, its bound on the requests: the HTTP client makes at most 3 request
\* attempts in total for a single URL fetch.
C7_AtMostThreeAttempts == Attempts <= 3

\* C7, amended: at most 4 requests for one fetch (the first and 3 retries) and one
\* request through CNBCScraper's session; a request is followed by another only
\* after a connection failure, a 429, 500, 502, 503 or 504, or a 413 that carries
\* Retry-After; any other 4xx ends the fetch as a failure with that request.
C7_RetryPolicy ==
    /\ Attempts <= RetryTotal + 1
    /\ fetch.scraper = "cnbc" => Attempts <= 1
    /\ \A k \in 1..(Attempts - 1) :
          LET r == fetch.log[k]
          IN \/ r.status = 0
             \/ r.status \in {429, 500, 502, 503, 504}
             \/ r.status = 413 /\ r.ra
    /\ \A k \in 1..Attempts :
          LET r == fetch.log[k]
          IN (ClientError(r) /\ ~(r.status = 413 /\ r.ra)) =>
                k = Attempts /\ fetch.pc = "failed"

\* Three requests met 503, the fourth met 404 and ended the fetch as a failure.
C7_Witness ==
    /\ fetch.scraper = "bloomberg"
    /\ fetch.pc = "failed"
    /\ Attempts = 4
    /\ \A k \in 1..3 : fetch.log[k].status = 503
    /\ fetch.log[4].status = 404

(***************************************************************************)
(* scrape_all and scrape_category of BloombergScraper and CNBCScraper.     *)
(* crawl.cats[c] is the list of links that _extract_article_links finds on  *)
(* the index page of category c (no link twice on a page; the same article  *)
(* may be listed under two categories).  crawl.pages[c] counts the requests *)
(* for index pages of category c, crawl.found[c] the links the last of them *)
(* yielded, and crawl.out is the list returned.                             *)
(***************************************************************************)
Min(a, b) == IF a < b THEN a ELSE b

\* CNBCScraper.scrape_all walks Market and Investment, BloombergScraper.scrape_all
\* the Market section only.
NumCats(sc) == IF sc = "cnbc" THEN 2 ELSE 1

LinkLists == {[j \in 1..m |-> b + j] : m \in 0..MaxLinks, b \in {0, 1}}

\* The links of the current category that the loop visits: article_links[:max_articles].
ToScrape(cr) == Min(Len(cr.cats[cr.c]), cr.limit)

\* scrape_category returned; scrape_all extends all_articles and goes on to the
\* next category, or returns after the last.
NextCategory(cr) ==
    IF cr.c + 1 > NumCats(cr.scraper)
    THEN [cr EXCEPT !.pc = "returned"]
    ELSE [cr EXCEPT !.pc = "index", !.c = cr.c + 1, !.k = 1]

\* scraper.scrape_all(max_articles_per_category=limit[, max_pages=mp]); mp = 0
\* stands for a call that passes no max_pages.  CNBCScraper.scrape_all takes no
\* max_pages: the call of main.scrape_command and of scheduled_scrape_job raises
\* TypeError.  BloombergScraper takes it (default 1) and does not use it.
StartCrawl(sc, cats, limit, mp) ==
    /\ crawl.pc = "idle"
    /\ crawl' = IF sc = "cnbc" /\ mp # 0
                THEN [IdleCrawl EXCEPT !.pc = "raised", !.scraper = sc, !.limit = limit,
                                       !.maxPages = mp, !.cats = cats,
                                       !.pages = [c \in 1..NumCats(sc) |-> 0],
                                       !.found = [c \in 1..NumCats(sc) |-> 0],
                                       !.tried = [c \in 1..NumCats(sc) |-> <<>>]]
                ELSE [IdleCrawl EXCEPT !.pc = "index", !.scraper = sc, !.limit = limit,
                                       !.maxPages = IF sc = "bloomberg" /\ mp = 0
                                                    THEN 1 ELSE mp,
                                       !.cats = cats,
                                       !.pages = [c \in 1..NumCats(sc) |-> 0],
                                       !.found = [c \in 1..NumCats(sc) |-> 0],
                                       !.tried = [c \in 1..NumCats(sc) |-> <<>>]]
    /\ CrawlFrame

\* response = self.session.get(category_url); raise_for_status();
\* article_links = self._extract_article_links(soup): the one request for an index
\* page that scrape_category makes.
IndexOk ==
    /\ crawl.pc = "index"
    /\ LET cr == [crawl EXCEPT !.pages[crawl.c] = @ + 1,
                                !.found[crawl.c] = Len(crawl.cats[crawl.c])]
       IN crawl' = IF ToScrape(cr) = 0
                   THEN NextCategory(cr)
                   ELSE [cr EXCEPT !.pc = "articles", !.k = 1]
    /\ CrawlFrame

\* The request for the index page fails: except Exception -> log, return articles.
IndexFail ==
    /\ crawl.pc = "index"
    /\ crawl' = NextCategory([crawl EXCEPT !.pages[crawl.c] = @ + 1])
    /\ CrawlFrame

\* A variant that leaves the category at the first article that fails.
ScrapedAborts(cr, o) ==
    IF o = "ok" /\ cr.k + 1 <= ToScrape(cr)
    THEN [cr EXCEPT !.k = @ + 1]
    ELSE NextCategory([cr EXCEPT !.k = @ + 1])

\* The loop after scrape_article has answered for link k: a candidate, None or an
\* exception (caught, continue); the next link, or the end of the category.
Scraped(cr, o) ==
    IF cr.k + 1 <= ToScrape(cr)
    THEN [cr EXCEPT !.k = @ + 1]
    ELSE NextCategory([cr EXCEPT !.k = @ + 1])

\* article_data = self.scrape_article(article_url); if article_data: append.
\* An exception is caught and the loop continues with the next link.
Article(o) ==
    /\ crawl.pc = "articles"
    /\ LET link == crawl.cats[crawl.c][crawl.k]
       IN crawl' = Scraped([crawl EXCEPT
                              !.out = IF o = "ok" THEN Append(@, link) ELSE @,
                              !.tried[crawl.c] = Append(@, <<link, o>>)], o)
    /\ CrawlFrame

NextCrawl ==
    \/ \E sc \in {"bloomberg", "cnbc"} :
         \E cats \in [1..NumCats(sc) -> LinkLists] :
           \E limit \in 1..MaxLimit : \E mp \in 0..MaxPages :
             StartCrawl(sc, cats, limit, mp)
    \/ IndexOk
    \/ IndexFail
    \/ \E o \in Done : Article(o)

SpecCrawl == InitAtRest /\ [][NextCrawl]_vars

\* The article links available for the source: those of all its index pages.
Available(cr) == UNION {Range(cr.cats[c]) : c \in DOMAIN cr.cats}

\* C8: a crawl that was given a page limit has, when it returns, requested page 1
\* of every category and no more pages than the limit, and has stopped after a page
\* that yielded no link, at the page limit, or with the article quota satisfied.
C8_PaginationStops ==
    (crawl.pc = "returned" /\ crawl.maxPages >= 1) =>
        \A c \in DOMAIN crawl.cats :
            /\ crawl.pages[c] >= 1
            /\ crawl.pages[c] <= crawl.maxPages
            /\ \/ crawl.found[c] = 0
               \/ crawl.pages[c] = crawl.maxPages
               \/ crawl.found[c] >= crawl.limit

\* C9: the list a crawl of a source returns is no longer than the number of links
\* available for the source and no longer than the limit per source.
C9_BoundedByLimit ==
    crawl.pc = "returned" =>
        Len(crawl.out) <= Min(Cardinality(Available(crawl)), crawl.limit)

(***************************************************************************)
(* helpers.load_idx_stocks, called from several threads.  The rows of       *)
(* idx_stonks.csv are 1..NumSymbols, one symbol each.  The function binds   *)
(* the global to a new empty dict before it fills it, and every statement   *)
(* of the loop reaches the dict through the global name.                    *)
(***************************************************************************)
Table == 1..NumSymbols

\* A thread calls load_idx_stocks().
CallLoad(t) ==
    /\ ld[t].pc = "idle"
    /\ ld' = [ld EXCEPT ![t].pc = "test"]
    /\ UNCHANGED <<glob, dicts>>
    /\ RegistryFrame

\* if _STOCK_TICKERS_CACHE is not None: return _STOCK_TICKERS_CACHE
TestCache(t) ==
    /\ ld[t].pc = "test"
    /\ ld' = IF glob # 0
             THEN [ld EXCEPT ![t] = [pc |-> "got", k |-> 1, ref |-> glob,
                                     seen |-> dicts[glob]]]
             ELSE [ld EXCEPT ![t].pc = "read"]
    /\ UNCHANGED <<glob, dicts>>
    /\ RegistryFrame

\* df = pd.read_csv(csv_path)
ReadCsv(t) ==
    /\ ld[t].pc = "read"
    /\ ld' = [ld EXCEPT ![t].pc = "assign"]
    /\ UNCHANGED <<glob, dicts>>
    /\ RegistryFrame

\* The file is missing (FileNotFoundError) or cannot be read (RuntimeError).
ReadFail(t) ==
    /\ ld[t].pc = "read"
    /\ ld' = [ld EXCEPT ![t].pc = "failed"]
    /\ UNCHANGED <<glob, dicts>>
    /\ RegistryFrame

\* _STOCK_TICKERS_CACHE = {}
AssignEmpty(t) ==
    /\ ld[t].pc = "assign"
    /\ glob' = t
    /\ dicts' = [dicts EXCEPT ![t] = {}]
    /\ ld' = [ld EXCEPT ![t].pc = "loop", ![t].k = 1]
    /\ RegistryFrame

\* _STOCK_TICKERS_CACHE[ticker] = company_name, for the next row.
LoopRow(t) ==
    /\ ld[t].pc = "loop"
    /\ dicts' = [dicts EXCEPT ![glob] = @ \cup {ld[t].k}]
    /\ ld' = [ld EXCEPT ![t].k = @ + 1,
                        ![t].pc = IF ld[t].k + 1 > NumSymbols THEN "ret" ELSE "loop"]
    /\ UNCHANGED glob
    /\ RegistryFrame

\* A row raises (no column 'code', a malformed row): except Exception -> raise
\* RuntimeError.  The global keeps the dict as far as it was filled.
LoopFail(t) ==
    /\ ld[t].pc = "loop"
    /\ ld' = [ld EXCEPT ![t].pc = "failed"]
    /\ UNCHANGED <<glob, dicts>>
    /\ RegistryFrame

\* return _STOCK_TICKERS_CACHE
ReturnCache(t) ==
    /\ ld[t].pc = "ret"
    /\ ld' = [ld EXCEPT ![t] = [pc |-> "got", k |-> ld[t].k, ref |-> glob,
                                seen |-> dicts[glob]]]
    /\ UNCHANGED <<glob, dicts>>
    /\ RegistryFrame

NextRegistry ==
    \E t \in Threads :
          \/ CallLoad(t)
          \/ TestCache(t)
          \/ ReadCsv(t)
          \/ ReadFail(t)
          \/ AssignEmpty(t)
          \/ LoopRow(t)
          \/ LoopFail(t)
          \/ ReturnCache(t)

SpecRegistry == InitAtRest /\ [][NextRegistry]_vars

\* C10: every caller that obtains the registry obtains the complete symbol table,
\* and the registry it obtained holds the same symbols ever after.
C10_CompleteRegistry ==
    \A t \in Threads :
        ld[t].pc = "got" =>
            /\ ld[t].seen = Table
            /\ dicts[ld[t].ref] = ld[t].seen

(***************************************************************************)
(* helpers.extract_stock_tickers, called in thread Extractor while the      *)
(* other thread may be loading the registry.  A text is the sequence of its *)
(* words (the maximal runs of word characters), which is what the pattern   *)
(* \b[A-Z]{4}\b looks at: it matches the words of four capital letters.     *)
(* The symbol of row k of idx_stonks.csv is Code(k).                        *)
(***************************************************************************)
Extractor == 1

\* str(row['code']).strip().upper() of row k; Code(0) is four capital letters that
\* are no symbol of the table.
Code(k) == [j \in 1..4 |-> IF j <= k THEN "B" ELSE "A"]

Capitals == {"A", "B"}

Words == {Code(k) : k \in 0..NumSymbols}
         \cup {<<"A", "A", "A">>, <<"A", "A", "A", "A", "A">>, <<"b", "a", "a", "a">>}

Texts == UNION {[1..n -> Words] : n \in 0..MaxWords}

\* The keys of a dict that holds the symbols of rows S.
Keys(S) == {Code(k) : k \in S}

\* re.findall(r'\b[A-Z]{4}\b', text): the words of four capital letters, in order.
RECURSIVE FindAll(_)
FindAll(text) ==
    IF text = <<>> THEN <<>>
    ELSE LET w == Head(text)
         IN IF Len(w) = 4 /\ \A j \in 1..4 : w[j] \in Capitals
            THEN <<w>> \o FindAll(Tail(text))
            ELSE FindAll(Tail(text))

\* A variant that keeps every potential ticker.
IsValidAny(w, valid) == TRUE

\* t in valid_tickers
IsValid(w, valid) == w \in valid

\* tickers = [t for t in potential_tickers if t in valid_tickers]
RECURSIVE Filter(_, _)
Filter(potential, valid) ==
    IF potential = <<>> THEN <<>>
    ELSE IF IsValid(Head(potential), valid)
         THEN <<Head(potential)>> \o Filter(Tail(potential), valid)
         ELSE Filter(Tail(potential), valid)

\* list(set(tickers)): every element once, in an order the set decides.
ListOfSet(tickers) ==
    {s \in UNION {[1..n -> Range(tickers)] : n \in 0..Len(tickers)} :
        /\ Range(s) = Range(tickers)
        /\ \A i, j \in DOMAIN s : i # j => s[i] # s[j]}

\* extract_stock_tickers(text): if not text: return []; else load_idx_stocks().
ExtractCall(text) ==
    /\ ext.pc = "idle"
    /\ ld[Extractor].pc = "idle"
    /\ IF text = <<>>
       THEN /\ ext' = [pc |-> "returned", text |-> text, out |-> <<>>]
            /\ UNCHANGED ld
       ELSE /\ ext' = [pc |-> "loading", text |-> text, out |-> <<>>]
            /\ ld' = [ld EXCEPT ![Extractor].pc = "test"]
    /\ UNCHANGED <<glob, dicts>>
    /\ ExtractFrame

\* load_idx_stocks returned: valid_tickers = set(....keys()), findall, filter,
\* return list(set(tickers)).
ExtractReturn ==
    /\ ext.pc = "loading"
    /\ ld[Extractor].pc = "got"
    /\ LET valid == Keys(dicts[ld[Extractor].ref])
       IN \E out \in ListOfSet(Filter(FindAll(ext.text), valid)) :
            ext' = [ext EXCEPT !.pc = "returned", !.out = out]
    /\ UNCHANGED registryVars
    /\ ExtractFrame

\* load_idx_stocks raised: except Exception -> print warning, return [].
ExtractNoRegistry ==
    /\ ext.pc = "loading"
    /\ ld[Extractor].pc = "failed"
    /\ ext' = [ext EXCEPT !.pc = "returned", !.out = <<>>]
    /\ UNCHANGED registryVars
    /\ ExtractFrame

\* The load of the extractor's own call runs only inside extract_stock_tickers;
\* the other thread loads when it likes.
NextExtract ==
    \/ \E text \in Texts : ExtractCall(text)
    \/ ExtractReturn
    \/ ExtractNoRegistry
    \/ \E t \in Threads \ {Extractor} : CallLoad(t)
    \/ \E t \in Threads :
          \/ TestCache(t)
          \/ ReadCsv(t)
          \/ ReadFail(t)
          \/ AssignEmpty(t)
          \/ LoopRow(t)
          \/ LoopFail(t)
          \/ ReturnCache(t)

SpecExtract == InitAtRest /\ [][NextExtract]_vars

\* C11: every symbol that extract_stock_tickers returns is a key of the registry,
\* no symbol is returned twice, and a call that could not load the registry
\* returns the empty list (it never ends in an error).
C11_OnlyRegistrySymbols ==
    /\ ext.pc \in {"idle", "loading", "returned"}
    /\ ext.pc = "returned" =>
          /\ Range(ext.out) \subseteq Keys(Table)
          /\ ext.text # <<>> /\ ld[Extractor].pc = "got" =>
                Range(ext.out) \subseteq Keys(dicts[ld[Extractor].ref])
          /\ \A i, j \in DOMAIN ext.out : i # j => ext.out[i] # ext.out[j]
          /\ ld[Extractor].pc = "failed" => ext.out = <<>>

\* A text that names the same symbol twice: the symbol is returned once.
C11_Witness ==
    /\ ext.pc = "returned"
    /\ ext.text = <<Code(1), Code(1)>>
    /\ ext.out = <<Code(1)>>

(***************************************************************************)
(* scrape_article of BloombergScraper and CNBCScraper with the cascades of  *)
(* BaseScraper / CNBCScraper, and the insertion of the candidate by         *)
(* DataPipeline.process_articles.  A page is described by what each         *)
(* selector of a cascade finds in it: page.title[k] and page.body[k] are    *)
(* the element the k-th selector finds (found, with its text) or none;      *)
(* page.jsonld, page.time, page.meta and page.text are the date that the    *)
(* JSON-LD block, the <time> element, the meta tags and the free-text       *)
(* date elements yield, 0 for none.  art.urlTs is the timestamp in the url: *)
(* 0 for no 14-digit segment, -1 for 14 digits that are no time.            *)
(* Characters: "a" a word character, " " whitespace, "*" a character that   *)
(* clean_text removes (a quotation mark, a colon, a dash).                  *)
(***************************************************************************)
BodyMin == 100

Dates == 1..NumDates

\* datetime.now() of the scrape.
Now == NumDates + 1

\* A string is held as the sequence of its runs: [c, n] is n >= 1 times the
\* character c, and neighbouring runs of a page's text differ in their character.
Rep(c, n) == <<[c |-> c, n |-> n]>>

\* len(text)
RECURSIVE StrLen(_)
StrLen(text) == IF text = <<>> THEN 0 ELSE Head(text).n + StrLen(Tail(text))

Some(text) == [some |-> TRUE, text |-> text]

\* Python's truth of an Optional[str]: None and "" are false.
Truthy(o) == o.some /\ o.text # <<>>

\* re.sub(r'\s+', ' ', text): a run of whitespace becomes one blank.
CollapseSpaces(text) ==
    [i \in DOMAIN text |-> IF text[i].c = " " THEN [c |-> " ", n |-> 1] ELSE text[i]]

\* re.sub(r'[^\w\s\-.,!?()%$...]', '', text)
RemoveSymbols(text) == SelectSeq(text, LAMBDA r : r.c # "*")

\* str.strip()
RECURSIVE Strip(_)
Strip(text) ==
    IF text = <<>> THEN <<>>
    ELSE IF Head(text).c = " " THEN Strip(Tail(text))
    ELSE IF text[Len(text)].c = " " THEN Strip(SubSeq(text, 1, Len(text) - 1))
    ELSE text

\* helpers.clean_text
clean_text(text) ==
    IF text = <<>> THEN <<>>
    ELSE Strip(RemoveSymbols(CollapseSpaces(text)))

\* The number of selectors in the title and in the content cascade of a scraper.
NumSelectors(sc) == IF sc = "cnbc" THEN 3 ELSE 4

Absent == [found |-> FALSE, text |-> <<>>]

Found(text) == [found |-> TRUE, text |-> text]

\* for tag, attrs in selectors: element = soup.find(tag, attrs); if element:
\* return its text.  The first selector that finds an element answers.
RECURSIVE TitleFrom(_, _, _)
TitleFrom(sc, page, k) ==
    IF k > NumSelectors(sc) THEN NoneStr
    ELSE IF page.title[k].found THEN Some(page.title[k].text)
    ELSE TitleFrom(sc, page, k + 1)

ExtractTitle(sc, page) == TitleFrom(sc, page, 1)

\* for tag, attrs in selectors: element = soup.find(tag, attrs); if element:
\* content = ' '.join(paragraphs); if len(content) > 100: return content.
RECURSIVE ContentFrom(_, _, _)
ContentFrom(sc, page, k) ==
    IF k > NumSelectors(sc) THEN NoneStr
    ELSE IF page.body[k].found /\ StrLen(page.body[k].text) > BodyMin
         THEN Some(page.body[k].text)
    ELSE ContentFrom(sc, page, k + 1)

ExtractContent(sc, page) == ContentFrom(sc, page, 1)

\* The first date of a list of sources, None (0) when none yields one.
RECURSIVE FirstDate(_)
FirstDate(ds) ==
    IF ds = <<>> THEN 0
    ELSE IF Head(ds) # 0 THEN Head(ds) ELSE FirstDate(Tail(ds))

\* BaseScraper._extract_date(soup, url=None): the url (when one is given and its 14
\* digits parse), JSON-LD, then the selectors: time, meta, then span/div/p text.
BaseExtractDate(url, page) ==
    IF url > 0 THEN url
    ELSE FirstDate(<<page.jsonld, page.time, page.meta, page.text>>)

\* CNBCScraper._extract_date(soup): time[datetime], span text, meta.
CnbcExtractDate(page) == FirstDate(<<page.time, page.text, page.meta>>)

\* published_date = self._extract_date(soup): neither scraper passes the url.
ExtractDate(sc, urlTs, page) ==
    IF sc = "cnbc" THEN CnbcExtractDate(page) ELSE BaseExtractDate(0, page)

\* scrape_article(article_url) on a page that was fetched: the cascades, the gate
\* if not title or not content: return None, and the record with clean_text.
ScrapeArticle(sc, urlTs, page) ==
    /\ art.pc = "idle"
    /\ LET title == ExtractTitle(sc, page)
           content == ExtractContent(sc, page)
           a == [art EXCEPT !.scraper = sc, !.urlTs = urlTs, !.page = page,
                            !.title = title, !.content = content]
       IN art' = IF ~Truthy(title) \/ ~Truthy(content)
                 THEN [a EXCEPT !.pc = "rejected"]
                 ELSE [a EXCEPT !.pc = "candidate",
                                !.cand = [title |-> clean_text(title.text),
                                          content |-> clean_text(content.text),
                                          published |-> ExtractDate(sc, urlTs, page),
                                          scraped |-> Now]]
    /\ ArticleFrame

\* session.get or raise_for_status raised: except Exception -> log, return None.
ScrapeFail(sc) ==
    /\ art.pc = "idle"
    /\ art' = [art EXCEPT !.pc = "failed", !.scraper = sc]
    /\ ArticleFrame

\* process_articles: article = Article(**article_data); db.add; db.flush.
Persist ==
    /\ art.pc = "candidate"
    /\ art' = [art EXCEPT !.pc = "stored", !.stored = art.cand]
    /\ ArticleFrame

TitleTexts == {<<>>, Rep("a", 1), Rep("*", 1)}

BodyTexts == {Rep("a", BodyMin), Rep("a", BodyMin + 1)}

\* Pages without a date, with every combination of what the selectors find.
ContentPages ==
    [title : [1..4 -> {Absent} \cup {Found(x) : x \in TitleTexts}],
     body : [1..4 -> {Absent} \cup {Found(x) : x \in BodyTexts}],
     jsonld : {0}, time : {0}, meta : {0}, text : {0}]

\* Pages with a good title and body, with every combination of dates.
DatedPages ==
    [title : {[k \in 1..4 |-> IF k = 1 THEN Found(Rep("a", 1)) ELSE Absent]},
     body : {[k \in 1..4 |-> IF k = 1 THEN Found(Rep("a", BodyMin + 1)) ELSE Absent]},
     jsonld : {0} \cup Dates, time : {0} \cup Dates,
     meta : {0} \cup Dates, text : {0} \cup Dates]

\* The inputs of the next call of scrape_article: none while a call is under way.
Given(S) == IF art.pc = "idle" THEN S ELSE {}

NextArticle ==
    \/ \E page \in Given(ContentPages) : ScrapeArticle("bloomberg", 0, page)
    \/ ScrapeFail("bloomberg")
    \/ Persist

SpecArticle == InitAtRest /\ [][NextArticle]_vars

NextDated ==
    \/ \E sc \in {"bloomberg", "cnbc"} : \E urlTs \in {-1, 0} \cup Dates :
         \E page \in Given(DatedPages) : ScrapeArticle(sc, urlTs, page)
    \/ \E sc \in {"bloomberg", "cnbc"} : ScrapeFail(sc)
    \/ Persist

SpecDated == InitAtRest /\ [][NextDated]_vars

\* A title path: a selector of the cascade whose element has text.
TitlePaths(a) == {k \in 1..NumSelectors(a.scraper) :
                     a.page.title[k].found /\ a.page.title[k].text # <<>>}

\* A body path: a selector of the cascade whose paragraphs exceed the minimum.
BodyPaths(a) == {k \in 1..NumSelectors(a.scraper) :
                    a.page.body[k].found /\ StrLen(a.page.body[k].text) > BodyMin}

Lowest(S) == CHOOSE k \in S : \A j \in S : k <= j

\* C12: a candidate that scrape_article returns has a non-empty title and a
\* non-empty body in the record (after cleaning), and a fetched page is rejected
\* exactly when no path yields a non-empty title and a body over 100 characters.
C12_ValidCandidate ==
    /\ art.pc \in {"candidate", "stored"} =>
          art.cand.title # <<>> /\ art.cand.content # <<>>
    /\ art.pc \in {"candidate", "stored", "rejected"} =>
          (art.pc = "rejected" <=> (TitlePaths(art) = {} \/ BodyPaths(art) = {}))

\* C13: the title and the body that the cascades return are those of the first
\* selector, in priority order, whose result is non-empty (and, for the body,
\* over the minimum length); a field is absent (None or empty) only when there
\* is no such selector.
C13_FirstQualifiedWins ==
    art.pc \in {"candidate", "stored", "rejected"} =>
        /\ IF TitlePaths(art) = {} THEN ~Truthy(art.title)
           ELSE art.title = Some(art.page.title[Lowest(TitlePaths(art))].text)
        /\ IF BodyPaths(art) = {} THEN ~Truthy(art.content)
           ELSE art.content = Some(art.page.body[Lowest(BodyPaths(art))].text)

\* C14: a stored article has a published timestamp, which is the fetch timestamp
\* when no date strategy found a date.
C14_PublishedNeverNull ==
    art.pc = "stored" =>
        /\ art.stored.published # 0
        /\ ExtractDate(art.scraper, art.urlTs, art.page) = 0 =>
              art.stored.published = art.stored.scraped

\* The date of the highest source, in the order url timestamp, JSON-LD, time and
\* meta attributes, free text, that yields one.
DateByPriority(a) ==
    IF a.urlTs > 0 THEN {a.urlTs}
    ELSE IF a.page.jsonld # 0 THEN {a.page.jsonld}
    ELSE IF a.page.time # 0 \/ a.page.meta # 0 THEN {a.page.time, a.page.meta} \ {0}
    ELSE {a.page.text}

\* C15: the published date of a candidate is the date of the highest source that
\* yields one: the url timestamp whenever the url holds a valid one, whatever the
\* page says, and a lower source only when every higher source yields none.
C15_DatePriority ==
    art.pc \in {"candidate", "stored"} => art.cand.published \in DateByPriority(art)

(***************************************************************************)
(* SentimentAnalyzer: analyze_batch / analyze_text over                     *)
(* _analyze_single_with_chunking, _apply_keyword_heuristics and             *)
(* _get_label_from_score.  Numbers are held in units of 1/Scale, so that    *)
(* the values of the code (0.05, 0.15, 0.2, 0.3, the weights 1.5 and 0.5,   *)
(* the mean over the windows) are whole numbers of units; the arithmetic is *)
(* exact, the rounding of the floats is left out.  A probability vector is  *)
(* <<P(negative), P(neutral), P(positive)>>.  A text is its sequence of     *)
(* characters.                                                             *)
(***************************************************************************)
Scale == 6000

PositiveWords ==
    <<<<"m", "e", "l", "e", "s", "a", "t">>,
      <<"t", "e", "r", "b", "a", "n", "g">>,
      <<"c", "u", "a", "n">>,
      <<"l", "a", "b", "a">>,
      <<"u", "n", "t", "u", "n", "g">>,
      <<"n", "a", "i", "k">>,
      <<"m", "e", "n", "g", "u", "a", "t">>,
      <<"b", "u", "l", "l", "i", "s", "h">>,
      <<"d", "i", "v", "i", "d", "e", "n">>,
      <<"a", "k", "u", "i", "s", "i", "s", "i">>,
      <<"e", "k", "s", "p", "a", "n", "s", "i">>,
      <<"r", "e", "k", "o", "r">>,
      <<"t", "u", "m", "b", "u", "h">>,
      <<"p", "o", "s", "i", "t", "i", "f">>,
      <<"o", "p", "t", "i", "m", "i", "s">>,
      <<"h", "i", "j", "a", "u">>,
      <<"b", "u", "y">>,
      <<"m", "e", "n", "i", "n", "g", "k", "a", "t">>,
      <<"p", "r", "o", "f", "i", "t">>>>

NegativeWords ==
    <<<<"a", "n", "j", "l", "o", "k">>,
      <<"t", "e", "r", "j", "u", "n">>,
      <<"r", "u", "g", "i">>,
      <<"b", "o", "n", "c", "o", "s">>,
      <<"t", "u", "r", "u", "n">>,
      <<"m", "e", "l", "e", "m", "a", "h">>,
      <<"b", "e", "a", "r", "i", "s", "h">>,
      <<"b", "a", "n", "g", "k", "r", "u", "t">>,
      <<"p", "a", "i", "l", "i", "t">>,
      <<"u", "t", "a", "n", "g">>,
      <<"k", "o", "r", "e", "k", "s", "i">>,
      <<"n", "e", "g", "a", "t", "i", "f">>,
      <<"p", "e", "s", "i", "m", "i", "s">>,
      <<"m", "e", "r", "a", "h">>,
      <<"s", "e", "l", "l">>,
      <<"g", "a", "g", "a", "l">>,
      <<"a", "n", "j", "l", "o", "g">>,
      <<"l", "o", "n", "g", "s", "o", "r">>,
      <<"m", "e", "r", "o", "s", "o", "t">>>>

\* A variant of the positive keywords without 'laba'.
PositiveKeywordsNoLaba == Range(PositiveWords) \ {<<"l", "a", "b", "a">>}

POSITIVE_KEYWORDS == Range(PositiveWords)

NEGATIVE_KEYWORDS == Range(NegativeWords)

UpperCase == <<"A", "B", "C", "L">>

LowerCase == <<"a", "b", "c", "l">>

\* str.lower(), for the capitals that occur in the texts of the model.
Lower(text) ==
    [i \in DOMAIN text |->
        IF \E k \in DOMAIN UpperCase : UpperCase[k] = text[i]
        THEN LowerCase[CHOOSE k \in DOMAIN UpperCase : UpperCase[k] = text[i]]
        ELSE text[i]]

\* w in text_lower: w occurs somewhere in the text, inside a word or not.
Contains(text, w) ==
    \E i \in 1..(Len(text) - Len(w) + 1) : SubSeq(text, i, i + Len(w) - 1) = w

\* sum(1 for w in KEYWORDS if w in text_lower)
CountHits(keywords, text) == Cardinality({w \in keywords : Contains(text, w)})

Min2(a, b) == IF a < b THEN a ELSE b

Max2(a, b) == IF a > b THEN a ELSE b

Abs(x) == IF x < 0 THEN -x ELSE x

\* A variant that does not clamp.
ClampNone(score) == score

\* max(min(score, 1.0), -1.0)
Clamp(score) == Max2(Min2(score, Scale), -Scale)

\* adjustment = max(min(net_keywords * 0.05, 0.3), -0.3)
Adjustment(net) == Max2(Min2(net * (Scale \div 20), (3 * Scale) \div 10), -((3 * Scale) \div 10))

\* -0.2 < score < 0.2
NearZero(score) == -(Scale \div 5) < score /\ score < Scale \div 5

\* A variant with the two weights 1.5 and 0.5 only.
HalvesTwoWeights(score, net) ==
    IF NearZero(score) /\ Abs(net) >= 2 THEN 3 ELSE 1

\* The weight of the adjustment, in halves: 1.5 for a score near zero with two or
\* more net keywords, 1 for a score near zero otherwise, 0.5 for any other score.
Halves(score, net) ==
    IF NearZero(score)
    THEN IF Abs(net) >= 2 THEN 3 ELSE 2
    ELSE 1

\* SentimentAnalyzer._apply_keyword_heuristics(text, score)
ApplyKeywordHeuristics(text, score) ==
    LET net == CountHits(POSITIVE_KEYWORDS, Lower(text))
               - CountHits(NEGATIVE_KEYWORDS, Lower(text))
    IN Clamp(score + (Adjustment(net) * Halves(score, net)) \div 2)

\* SentimentAnalyzer._get_label_from_score(score): threshold = 0.15
GetLabelFromScore(score) ==
    IF score > (15 * Scale) \div 100 THEN "positive"
    ELSE IF score < -((15 * Scale) \div 100) THEN "negative"
    ELSE "neutral"

\* A variant that labels the score of the classifier.
LabelledScoreRaw(raw, adjusted) == raw

\* sentiment_label = self._get_label_from_score(sentiment_score), after
\* sentiment_score was replaced by the adjusted score.
LabelledScore(raw, adjusted) == adjusted

\* The outputs of softmax for one window: three probabilities on the grid that sum
\* to one.
ProbVectors ==
    {<<a * (Scale \div Grid), b * (Scale \div Grid), (Grid - a - b) * (Scale \div Grid)>> :
        a \in 0..Grid, b \in 0..Grid} \cap [1..3 -> 0..Scale]

RECURSIVE SumAt(_, _)
SumAt(ws, k) == IF ws = <<>> THEN 0 ELSE Head(ws)[k] + SumAt(Tail(ws), k)

\* torch.mean(probabilities, dim=0)
Mean(ws) == [k \in 1..3 |-> SumAt(ws, k) \div Len(ws)]

\* torch.argmax(avg_probs): the first index of the greatest value.
ArgMax(v) == CHOOSE k \in 1..3 : (\A j \in 1..3 : v[j] <= v[k])
                                /\ (\A j \in 1..(k - 1) : v[j] < v[k])

RECURSIVE Join(_)
Join(ws) ==
    IF ws = <<>> THEN <<>>
    ELSE IF Len(ws) = 1 THEN Head(ws)
    ELSE Head(ws) \o <<" ">> \o Join(Tail(ws))

\* "Laba BBCA melesat, saham menguat"
ExampleText ==
    <<"L", "a", "b", "a", " ", "B", "B", "C", "A", " ",
      "m", "e", "l", "e", "s", "a", "t", ",", " ",
      "s", "a", "h", "a", "m", " ", "m", "e", "n", "g", "u", "a", "t">>

\* The texts given to the analyzer: the empty text, the example, and texts that
\* name the first p positive or the first n negative keywords.
SentimentTexts ==
    {<<>>, ExampleText}
    \cup {Join(SubSeq(PositiveWords, 1, p)) : p \in 1..MaxHits}
    \cup {Join(SubSeq(NegativeWords, 1, n)) : n \in 1..MaxHits}
    \cup {<<"s", "a", "h", "a", "m">>}

NeutralFallback(st, via, text) ==
    [st EXCEPT !.pc = "done", !.via = via, !.text = text,
               !.score = 0, !.label = "neutral", !.confidence = 0]

\* The call with an empty text: if not text: return the neutral result.
AnalyzeEmpty(via) ==
    /\ sent.pc = "idle"
    /\ sent' = NeutralFallback(IdleSentiment, via, <<>>)
    /\ SentimentFrame

\* The tokenizer cuts the text into the windows ws, the model and softmax answer
\* with one probability vector for each, and the mean is taken.
Classify(via, text, ws) ==
    /\ sent.pc = "idle"
    /\ text # <<>>
    /\ sent' = [IdleSentiment EXCEPT !.pc = "classified", !.via = via, !.text = text,
                                     !.n = Len(ws), !.avg = Mean(ws)]
    /\ SentimentFrame

\* The tokenizer or the model raises.  analyze_batch catches it and appends the
\* neutral result; analyze_text lets it pass to its caller.
ClassifyRaise(via, text) ==
    /\ sent.pc = "idle"
    /\ text # <<>>
    /\ sent' = IF via = "batch"
               THEN [NeutralFallback(IdleSentiment, via, text) EXCEPT !.pc = "fallback"]
               ELSE [IdleSentiment EXCEPT !.pc = "raised", !.via = via, !.text = text]
    /\ SentimentFrame

\* prediction, confidence, sentiment_score = P(pos) - P(neg), the keyword
\* heuristics, the label, and the returned dictionary.
Score ==
    /\ sent.pc = "classified"
    /\ LET raw == sent.avg[3] - sent.avg[1]
           adjusted == ApplyKeywordHeuristics(sent.text, raw)
       IN sent' = [sent EXCEPT !.pc = "done",
                               !.raw = raw,
                               !.pos = CountHits(POSITIVE_KEYWORDS, Lower(sent.text)),
                               !.neg = CountHits(NEGATIVE_KEYWORDS, Lower(sent.text)),
                               !.score = adjusted,
                               !.label = GetLabelFromScore(LabelledScore(raw, adjusted)),
                               !.confidence = sent.avg[ArgMax(sent.avg)]]
    /\ SentimentFrame

\* The windows of the next text: none while a text is under way.
Windows == IF sent.pc = "idle"
           THEN UNION {[1..n -> ProbVectors] : n \in 1..MaxWindows}
           ELSE {}

NextSentiment ==
    \/ \E via \in {"batch", "text"} : AnalyzeEmpty(via)
    \/ \E via \in {"batch", "text"} : \E text \in SentimentTexts \ {<<>>} :
         \E ws \in Windows : Classify(via, text, ws)
    \/ \E via \in {"batch", "text"} : \E text \in SentimentTexts \ {<<>>} :
         ClassifyRaise(via, text)
    \/ Score

SpecSentiment == InitAtRest /\ [][NextSentiment]_vars

\* A result was returned: by the analysis, for the empty text, or as the fallback.
HasResult == sent.pc \in {"done", "fallback"}

\* The analysis of a text ran to its end.
Analysed == sent.pc = "done" /\ sent.text # <<>>

Net == sent.pos - sent.neg

\* C16: every result of sentiment scoring, for any text, probability vectors,
\* number of windows and keyword counts, and also the result for the empty text and
\* the fallback after a failure, has its score within [-1, 1] and its confidence
\* within [0, 1].
C16_ScoreInRange ==
    HasResult =>
        /\ -Scale <= sent.score /\ sent.score <= Scale
        /\ 0 <= sent.confidence /\ sent.confidence <= Scale

\* A classifier score of 1 with positive keywords: the sum is clamped to 1.
C16_Witness ==
    /\ Analysed
    /\ sent.raw = Scale
    /\ Net > 0
    /\ sent.score = Scale
    /\ sent.confidence = Scale

\* C17 as stated: the final score is clamp(raw + w * adjustment), the adjustment
\* being 0.05 per net keyword within 0.3 either way, with w = 1.5 for a raw score
\* within 0.2 of zero and two or more net keywords, and w = 0.5 in every other case.
C17_TwoWeights ==
    Analysed =>
        sent.score = Clamp(sent.raw
                           + (Adjustment(Net) * HalvesTwoWeights(sent.raw, Net)) \div 2)

\* C17, amended: the final score is clamp(raw + w * adjustment) with w = 1.5 for a
\* raw score strictly within 0.2 of zero and two or more net keywords, w = 1 for a
\* raw score strictly within 0.2 of zero and fewer than two, and w = 0.5 for any
\* other raw score.
C17_ThreeWeights ==
    Analysed =>
        LET adj == IF Net * (Scale \div 20) > (3 * Scale) \div 10 THEN (3 * Scale) \div 10
                   ELSE IF Net * (Scale \div 20) < -((3 * Scale) \div 10)
                        THEN -((3 * Scale) \div 10)
                   ELSE Net * (Scale \div 20)
            near == -(Scale \div 5) < sent.raw /\ sent.raw < Scale \div 5
            sum == IF near /\ Abs(Net) >= 2 THEN sent.raw + (3 * adj) \div 2
                   ELSE IF near THEN sent.raw + adj
                   ELSE sent.raw + adj \div 2
        IN sent.score = IF sum > Scale THEN Scale ELSE IF sum < -Scale THEN -Scale ELSE sum

\* A raw score near zero and one net keyword: the adjustment is added in full.
C17_Witness ==
    /\ Analysed
    /\ NearZero(sent.raw)
    /\ Abs(Net) = 1
    /\ sent.score = sent.raw + Net * (Scale \div 20)

\* C18: in every result the label is the one that the thresholds give for the
\* final score of that result: positive above 0.15, negative below -0.15, neutral
\* otherwise.
C18_LabelMatchesScore ==
    HasResult =>
        sent.label = IF sent.score > (15 * Scale) \div 100 THEN "positive"
                     ELSE IF sent.score < -((15 * Scale) \div 100) THEN "negative"
                     ELSE "neutral"

\* The keywords moved the score across a threshold: the label is that of the final
\* score, not that of the classifier's score.
C18_Witness ==
    /\ Analysed
    /\ GetLabelFromScore(sent.raw) = "neutral"
    /\ sent.label = "positive"
    /\ sent.score > (15 * Scale) \div 100

\* C19 as stated: for the example text the heuristic counts 2 positive hits and no
\* negative hit, and for every raw score near zero the final score is at least
\* raw + 0.075 and the label is positive.
C19_TwoHits ==
    (Analysed /\ sent.text = ExampleText) =>
        /\ sent.pos = 2
        /\ sent.neg = 0
        /\ NearZero(sent.raw) =>
              /\ sent.score >= sent.raw + (3 * Scale) \div 40
              /\ sent.label = "positive"

\* C19, amended: for the example text the heuristic counts 3 positive hits (laba,
\* melesat, menguat) and no negative hit; for every raw score strictly within 0.2
\* of zero the final score is raw + 0.225, which is at least raw + 0.075, and the
\* label is positive when the raw score is above -0.075 and neutral otherwise.
C19_ThreeHits ==
    (Analysed /\ sent.text = ExampleText) =>
        /\ sent.pos = 3
        /\ sent.neg = 0
        /\ NearZero(sent.raw) =>
              /\ sent.score = sent.raw + (9 * Scale) \div 40
              /\ sent.score >= sent.raw + (3 * Scale) \div 40
              /\ sent.label = IF sent.raw > -((3 * Scale) \div 40)
                              THEN "positive" ELSE "neutral"

\* The example text with a raw score near zero but below -0.075: the label is
\* neutral.
C19_Witness ==
    /\ Analysed
    /\ sent.text = ExampleText
    /\ NearZero(sent.raw)
    /\ sent.raw < -((3 * Scale) \div 40)
    /\ sent.label = "neutral"

(***************************************************************************)
(* DataPipeline._analyze_sentiments(db, articles) on the new articles of a  *)
(* batch, which process_articles has committed before.  enr.tickers[i] is   *)
(* the number of tickers of article i, enr.doc[i] the result analyze_batch  *)
(* gave for its text.  enr.fields (the articles whose sentiment fields are  *)
(* set, with the result) and enr.rows (the TickerSentiment rows added) are  *)
(* the session's uncommitted changes; enr.committed is what db.commit()     *)
(* made durable.                                                           *)
(***************************************************************************)

\* _analyze_sentiments is entered: analyzer.analyze_batch(texts) begins.
StartEnrich(tk) ==
    /\ enr.pc = "idle"
    /\ enr' = [IdleEnrich EXCEPT !.pc = "batch", !.n = Len(tk), !.tickers = tk]
    /\ EnrichFrame

\* The article after article i in the loop over zip(articles, sentiment_results),
\* or the end of the loop.
AfterArticle(e) ==
    IF e.i + 1 > e.n
    THEN [e EXCEPT !.pc = "commit"]
    ELSE [e EXCEPT !.pc = "assign", !.i = e.i + 1, !.j = 1]

\* analyze_batch, one text: the result of _analyze_single_with_chunking, or, when
\* it raises, the neutral result appended by the except branch.
BatchItem(o) ==
    /\ enr.pc = "batch"
    /\ LET e == [enr EXCEPT !.doc = Append(@, IF o = "ok" THEN "analysed" ELSE "fallback")]
       IN enr' = IF Len(e.doc) = e.n THEN [e EXCEPT !.pc = "assign", !.i = 1, !.j = 1]
                 ELSE e
    /\ EnrichFrame

\* article.sentiment_score, .sentiment_label, .confidence, .analyzed_date are set
\* from the result; if article.tickers: the loop over its tickers follows.
AssignFields ==
    /\ enr.pc = "assign"
    /\ LET e == [enr EXCEPT !.fields = @ \cup {<<enr.i, enr.doc[enr.i]>>}]
       IN enr' = IF e.tickers[e.i] = 0 THEN AfterArticle(e)
                 ELSE [e EXCEPT !.pc = "ticker", !.j = 1]
    /\ EnrichFrame

\* ticker_result = analyzer.analyze_text(context) raises: nothing catches it in
\* _analyze_sentiments or process_articles; get_db rolls the session back and
\* raises again.
TickerRaised(e) == [e EXCEPT !.pc = "raised", !.fields = {}, !.rows = {}]

\* ticker_result = analyzer.analyze_text(context); db.add(TickerSentiment(...))
TickerItem(o) ==
    /\ enr.pc = "ticker"
    /\ enr' = IF o = "ok"
              THEN LET f == [enr EXCEPT !.rows = @ \cup {<<enr.i, enr.j, "analysed">>},
                                        !.j = enr.j + 1]
                   IN IF f.j > f.tickers[f.i] THEN AfterArticle(f) ELSE f
              ELSE TickerRaised(enr)
    /\ EnrichFrame

\* db.commit()
CommitEnrich ==
    /\ enr.pc = "commit"
    /\ enr' = [enr EXCEPT !.pc = "done",
                          !.committed = [fields |-> enr.fields, rows |-> enr.rows],
                          !.fields = {}, !.rows = {}]
    /\ EnrichFrame

NextEnrich ==
    \/ \E n \in 1..MaxBatch : \E tk \in [1..n -> 0..MaxTickers] : StartEnrich(tk)
    \/ \E o \in {"ok", "raise"} : BatchItem(o)
    \/ AssignFields
    \/ \E o \in {"ok", "raise"} : TickerItem(o)
    \/ CommitEnrich

SpecEnrich == InitAtRest /\ [][NextEnrich]_vars

\* C20: a classifier failure for one text, a whole document or the snippet of a
\* ticker, does not leave the enrichment run as an exception; the run ends with
\* every article of the batch enriched and committed, the failed items with the
\* neutral fallback.
C20_FailureIsolated ==
    /\ enr.pc # "raised"
    /\ enr.pc = "done" =>
          /\ \A i \in 1..enr.n : <<i, enr.doc[i]>> \in enr.committed.fields
          /\ \A i \in 1..enr.n : \A j \in 1..enr.tickers[i] :
                \E o \in {"analysed", "fallback"} : <<i, j, o>> \in enr.committed.rows

(***************************************************************************)
(* Enrichment runs over the database.  Two processes (the scheduler's job   *)
(* or the scrape command, the analyze command) run process_articles and     *)
(* analyze_command, each in its own session; the API serves                 *)
(* submit_feedback.  sto.arts[a] is the row of article a: its tickers       *)
(* column (the number k of symbols it lists, the symbols being 1..k), its   *)
(* sentiment fields (value: "none" while sentiment_label is NULL, else the  *)
(* result they were set from), the number of times the fields were written  *)
(* and is_corrected.  sto.ts[a][k] counts the ticker_sentiments rows of     *)
(* article a and symbol k.  A session's objects are those of its job:       *)
(* mine, with tick[a] the tickers its objects hold.                         *)
(***************************************************************************)

\* process_articles: the loop over the candidates and db.commit(); the articles
\* not yet stored are inserted and are the articles_for_processing.
ProcessStart(p, cands) ==
    /\ sto.job[p].pc = "idle"
    /\ sto.runs < MaxRuns
    /\ LET new == {a \in cands : ~sto.arts[a].present}
       IN sto' = [sto EXCEPT
                    !.runs = @ + 1,
                    !.arts = [a \in Urls |-> IF a \in new
                                             THEN [NoArticle EXCEPT !.present = TRUE]
                                             ELSE sto.arts[a]],
                    !.job[p] = IF new = {} THEN IdleJob
                               ELSE [IdleJob EXCEPT !.pc = "tickers", !.kind = "process",
                                                    !.mine = new]]
    /\ StoreFrame

\* _extract_tickers: article.tickers = ','.join(tickers) for each new article;
\* db.commit().
ExtractTickers(p, f) ==
    /\ sto.job[p].pc = "tickers"
    /\ sto' = [sto EXCEPT
                 !.arts = [a \in Urls |-> IF a \in sto.job[p].mine
                                          THEN [sto.arts[a] EXCEPT !.tickers = f[a]]
                                          ELSE sto.arts[a]],
                 !.job[p] = [@ EXCEPT !.pc = "analyze",
                                      !.tick = [a \in Urls |-> IF a \in sto.job[p].mine
                                                               THEN f[a] ELSE 0]]]
    /\ StoreFrame

\* db.query(Article).filter(Article.sentiment_label.is_(None)).all()
Unanalysed == {a \in Urls : sto.arts[a].present /\ sto.arts[a].value = "none"}

\* analyze_command: the query for the articles without a sentiment label; if not
\* articles: return.
AnalyzeSelect(p) ==
    /\ sto.job[p].pc = "idle"
    /\ sto.runs < MaxRuns
    /\ sto' = [sto EXCEPT
                 !.runs = @ + 1,
                 !.job[p] = IF Unanalysed = {} THEN IdleJob
                            ELSE [IdleJob EXCEPT
                                    !.pc = "analyze", !.kind = "analyze",
                                    !.mine = Unanalysed,
                                    !.tick = [a \in Urls |-> IF a \in Unanalysed
                                                             THEN sto.arts[a].tickers
                                                             ELSE 0]]]
    /\ StoreFrame

\* _analyze_sentiments(db, articles): the sentiment fields of every article of the
\* list are set from res[a], a TickerSentiment is added for every ticker the
\* session's article lists, db.commit().
AnalyzeSentiments(p, res) ==
    /\ sto.job[p].pc = "analyze"
    /\ LET j == sto.job[p]
       IN sto' = [sto EXCEPT
                    !.arts = [a \in Urls |-> IF a \in j.mine
                                             THEN [sto.arts[a] EXCEPT
                                                     !.value = res[a],
                                                     !.writes = @ + 1]
                                             ELSE sto.arts[a]],
                    !.ts = [a \in Urls |-> [k \in 1..MaxTickers |->
                                IF a \in j.mine /\ k <= j.tick[a]
                                THEN sto.ts[a][k] + 1 ELSE sto.ts[a][k]]],
                    !.job[p] = IdleJob]
    /\ StoreFrame

\* An exception in _extract_tickers or _analyze_sentiments: get_db rolls back what
\* the step has not committed and the run ends.
RunFails(p) ==
    /\ sto.job[p].pc \in {"tickers", "analyze"}
    /\ sto' = [sto EXCEPT !.job[p] = IdleJob]
    /\ StoreFrame

\* submit_feedback(article_id, feedback): is_corrected, corrected_label and
\* correction_date are set; db.commit().  An unknown article is answered with 404.
SubmitFeedback(a) ==
    /\ sto.arts[a].present
    /\ ~sto.arts[a].corrected
    /\ sto' = [sto EXCEPT !.arts[a].corrected = TRUE]
    /\ StoreFrame

Results == {"analysed", "fallback"}

NextStore ==
    \/ \E p \in Procs : \E cands \in SUBSET Urls \ {{}} : ProcessStart(p, cands)
    \/ \E p \in Procs : \E f \in [Urls -> 0..MaxTickers] :
         (\A a \in Urls \ sto.job[p].mine : f[a] = 0) /\ ExtractTickers(p, f)
    \/ \E p \in Procs : AnalyzeSelect(p)
    \/ \E p \in Procs : \E res \in [Urls -> Results] :
         (\A a \in Urls \ sto.job[p].mine : res[a] = "analysed") /\ AnalyzeSentiments(p, res)
    \/ \E p \in Procs : RunFails(p)
    \/ \E a \in Urls : SubmitFeedback(a)

SpecStore == InitAtRest /\ [][NextStore]_vars

\* C21: the sentiment fields of a stored article are written at most once: once
\* they are set, no later run of process_articles or of the analyze command and no
\* feedback submission writes them again.
C21_WrittenOnce == \A a \in Urls : sto.arts[a].writes <= 1

\* C22: the table of aspect sentiments holds at most one row for each pair of an
\* article and a symbol, whatever runs of process_articles and of the analyze
\* command took place and however they were interleaved.
C22_OneRowPerPair == \A a \in Urls : \A k \in 1..MaxTickers : sto.ts[a][k] <= 1

\* C27: when a call of process_articles has committed new articles and then failed
\* in ticker extraction or sentiment analysis, a retry with the same candidates
\* that returns leaves every one of those articles enriched.
C27_RetryEnriches ==
    (/\ run[1].no = 2
     /\ run[1].pc = "returned"
     /\ run[1].cands = prev[1].cands) =>
        \A r \in articles : r.by = <<1, 1>> => r.enriched

(***************************************************************************)
(* StockScreener.generate_signals with the default parameters.  Scores are  *)
(* in the units of Scale.  scr.signals is the table screening_signals, in   *)
(* the order of insertion; scr.arts is the result of the query for the      *)
(* articles of the current stock in the trailing window, each article       *)
(* given by the score of its Sentiment row or by NoScore when it has none.  *)
(***************************************************************************)
MinArticles == 3

\* MIN_SENTIMENT_SCORE, 0.3
MinSentiment == (3 * Scale) \div 10

\* db.query(Stock).all()
StockList == <<"BBCA">>

\* article.sentiment is None
NoScore == 2 * Scale

ScoreValues == <<-(Scale \div 2), (3 * Scale) \div 10, Scale \div 2, NoScore>>

\* The results of the query for one stock: up to MaxArts articles, listed by
\* score (the sum and the deviation do not depend on the order of the rows).
ArticleLists ==
    UNION {{[j \in 1..n |-> ScoreValues[f[j]]] :
               f \in {g \in [1..n -> 1..Len(ScoreValues)] :
                         \A j \in 1..(n - 1) : g[j] <= g[j + 1]}} :
           n \in 0..MaxArts}

\* sentiments: the scores of the articles that have a Sentiment row.
Sentiments(arts) == SelectSeq(arts, LAMBDA x : x # NoScore)

RECURSIVE Sum(_)
Sum(q) == IF q = <<>> THEN 0 ELSE Head(q) + Sum(Tail(q))

\* avg_sentiment = sum(sentiments) / len(sentiments)
AvgSentiment(q) == Sum(q) \div Len(q)

\* The largest r in lo..hi with r * r <= v.
RECURSIVE Root(_, _, _)
Root(v, lo, hi) ==
    IF lo = hi THEN lo
    ELSE LET mid == (lo + hi + 1) \div 2
         IN IF mid * mid <= v THEN Root(v, mid, hi) ELSE Root(v, lo, mid - 1)

\* np.std(sentiments): the population standard deviation, to the unit.
Std(q) ==
    LET m == AvgSentiment(q)
        var == Sum([j \in 1..Len(q) |-> (q[j] - m) * (q[j] - m)]) \div Len(q)
    IN Root(var, 0, 2 * Scale)

\* A variant that multiplies by the spread.
SignalStrengthTimes(avg, std) == (Abs(avg) * (Scale + std)) \div Scale

\* consistency = 1 / (1 + std_sentiment); signal_strength = abs(avg) * consistency
SignalStrength(avg, std) == (Abs(avg) * Scale) \div (Scale + std)

\* _calculate_signal: the signal type.
SignalType(avg) ==
    IF avg > MinSentiment THEN "BUY"
    ELSE IF avg < -MinSentiment THEN "SELL"
    ELSE "HOLD"

\* A variant that asks for one article less.
InsufficientLess(arts) == Len(arts) < MinArticles - 1

\* if len(articles) < self.min_articles: return None
Insufficient(arts) == Len(arts) < MinArticles

\* _generate_stock_signal(db, stock, start_date, end_date) for the query result arts.
GenerateStockSignal(arts) ==
    IF Insufficient(arts) THEN NoSignal
    ELSE IF Sentiments(arts) = <<>> THEN NoSignal
    ELSE LET q == Sentiments(arts)
             avg == AvgSentiment(q)
         IN IF Abs(avg) < MinSentiment THEN NoSignal
            ELSE [type |-> SignalType(avg),
                  strength |-> SignalStrength(avg, Std(q)),
                  avg |-> avg,
                  count |-> Len(arts)]

\* A variant that keeps one row for each stock.
AddSignalsReplacing(table, new) == IF new = <<>> THEN table ELSE new

\* for signal in signals: db.add(signal); db.commit()
AddSignals(table, new) == table \o new

\* generate_signals is called for the first time.
GenerateStart ==
    /\ scr.pc = "idle"
    /\ scr' = [IdleScreen EXCEPT !.pc = "stock"]
    /\ ScreenFrame

\* generate_signals is called again, on the table its first call left.
GenerateAgain ==
    /\ scr.pc \in {"first", "raised"}
    /\ scr' = [IdleScreen EXCEPT !.pc = "stock2", !.signals = scr.signals,
                                 !.before = scr.signals]
    /\ ScreenFrame

\* One round of the loop over the stocks: signal = self._generate_stock_signal(...);
\* if signal: signals.append(signal)
StockSignal(arts) ==
    /\ scr.pc \in {"stock", "stock2"}
    /\ LET sig == GenerateStockSignal(arts)
           s == [scr EXCEPT !.arts = arts, !.last = sig, !.k = @ + 1,
                            !.pending = IF sig = NoSignal THEN @ ELSE Append(@, sig)]
       IN scr' = IF s.k > Len(StockList)
                 THEN [s EXCEPT !.pc = IF scr.pc = "stock" THEN "save" ELSE "save2"]
                 ELSE s
    /\ ScreenFrame

\* The signals are added and committed; return signals.
SaveSignals ==
    /\ scr.pc \in {"save", "save2"}
    /\ scr' = [scr EXCEPT !.signals = AddSignals(scr.signals, scr.pending),
                          !.pc = IF scr.pc = "save" THEN "first" ELSE "second"]
    /\ ScreenFrame

\* A query or the commit raises: get_db rolls back, no signal of the run is stored.
ScreenFails ==
    /\ scr.pc \in {"stock", "stock2", "save", "save2"}
    /\ scr' = [scr EXCEPT !.pending = <<>>, !.last = NoSignal,
                          !.pc = IF scr.pc \in {"stock", "save"} THEN "raised" ELSE "raised2"]
    /\ ScreenFrame

\* The stocks are queried while a call is in its loop.
Queried(S) == IF scr.pc \in {"stock", "stock2"} THEN S ELSE {}

NextScreen ==
    \/ GenerateStart
    \/ GenerateAgain
    \/ \E arts \in Queried(ArticleLists) : StockSignal(arts)
    \/ SaveSignals
    \/ ScreenFails

SpecScreen == InitAtRest /\ [][NextScreen]_vars

\* A call has returned.
Generated == scr.pc \in {"first", "second"}

\* The rows the last call added to the table.
AddedRows == SubSeq(scr.signals, Len(scr.before) + 1, Len(scr.signals))

\* The scores that entered the mean of the last call.
Entered == Sentiments(scr.arts)

\* C23: when the query finds fewer than min_articles articles of the stock in the
\* trailing window, the call computes no signal for it and adds no row.
C23_TooFewNoSignal ==
    (Generated /\ Len(scr.arts) < MinArticles) =>
        /\ scr.last = NoSignal
        /\ AddedRows = <<>>

C23_Witness ==
    /\ scr.pc = "first"
    /\ scr.arts = <<Scale \div 2, Scale \div 2>>
    /\ scr.signals = <<>>

\* C24: every row of the signals table has type BUY or SELL; no HOLD row is stored,
\* not even for a mean whose absolute value equals the threshold.
C24_BuyOrSell ==
    \A j \in 1..Len(scr.signals) : scr.signals[j].type \in {"BUY", "SELL"}

\* C25: the strength of an emitted signal is |mean| / (1 + stddev) to the unit, it
\* lies in [0, 1] and does not exceed |mean|; when all scores of the window are
\* equal to s the strength is |s| and the type is BUY for s above the threshold.
C25_Strength ==
    (Generated /\ scr.last # NoSignal) =>
        LET sig == scr.last
            std == Std(Entered)
        IN /\ 0 <= sig.strength /\ sig.strength <= Scale
           /\ sig.strength <= Abs(sig.avg)
           /\ sig.strength * (Scale + std) <= Abs(sig.avg) * Scale
           /\ Abs(sig.avg) * Scale < (sig.strength + 1) * (Scale + std)
           /\ (\A j \in 1..Len(Entered) : Entered[j] = Entered[1]) =>
                 /\ sig.strength = Abs(Entered[1])
                 /\ Entered[1] > MinSentiment => sig.type = "BUY"

C25_Witness ==
    /\ scr.pc = "first"
    /\ scr.arts = <<Scale \div 2, Scale \div 2, Scale \div 2, Scale \div 2>>
    /\ scr.signals = <<[type |-> "BUY", strength |-> Scale \div 2, avg |-> Scale \div 2,
                        count |-> 4]>>

\* C26: a call only appends to the signals table: the rows that were there before
\* the call are still there, unchanged and in place, and what the call added is
\* the signal computed from the articles of the window.
C26_AppendOnly ==
    /\ Len(scr.before) <= Len(scr.signals)
    /\ SubSeq(scr.signals, 1, Len(scr.before)) = scr.before
    /\ Generated => AddedRows = (IF scr.last = NoSignal THEN <<>> ELSE <<scr.last>>)

C26_Witness ==
    /\ scr.pc = "second"
    /\ Len(scr.before) = 1
    /\ Len(scr.signals) = 2
    /\ scr.signals[2] # scr.signals[1]

\* C29: every signal a call emits rests on at least min_articles scores, and its
\* article_count is the number of scores that entered the mean.
C29_BackedByScores ==
    (Generated /\ scr.last # NoSignal) =>
        /\ Len(Entered) >= MinArticles
        /\ scr.last.count = Len(Entered)

\* The links of the attempts that gave a candidate, in the order of the attempts.
Candidates(att) == [j \in 1..Len(SelectSeq(att, LAMBDA x : x[2] = "ok")) |->
                      SelectSeq(att, LAMBDA x : x[2] = "ok")[j][1]]

RECURSIVE Flat(_)
Flat(q) == IF q = <<>> THEN <<>> ELSE Head(q) \o Flat(Tail(q))

\* C28: no call of scrape_category raises; for a category whose index page could
\* not be fetched nothing is attempted, for every other category the links up to
\* the limit are all attempted, in link order, whatever the attempts before
\* answered, and the candidates are those of the attempts that succeeded.
C28_CategoryNeverRaises ==
    /\ crawl.pc = "raised" => \A c \in 1..Len(crawl.pages) : crawl.pages[c] = 0
    /\ crawl.pc = "returned" =>
          /\ \A c \in 1..Len(crawl.cats) :
                [j \in 1..Len(crawl.tried[c]) |-> crawl.tried[c][j][1]]
                   = SubSeq(crawl.cats[c], 1, Min(crawl.found[c], crawl.limit))
          /\ crawl.out = Flat([c \in 1..Len(crawl.cats) |-> Candidates(crawl.tried[c])])

C28_Witness ==
    /\ crawl.pc = "returned"
    /\ crawl.scraper = "bloomberg"
    /\ crawl.tried = <<<< <<1, "exc">>, <<2, "ok">> >>>>
    /\ crawl.out = <<2>>

(***************************************************************************)
(* run_scheduler: the initial scheduled_scrape_job() in the main thread,    *)
(* then the blocking scheduler with its interval trigger.  sch.inst lists   *)
(* the stage of every instance of the job that is executing, sch.ended how  *)
(* the instances that are over ended; sch.busy and sch.submitted record,    *)
(* for the last firing of the trigger, how many instances were executing    *)
(* and whether a new one was submitted.                                     *)
(***************************************************************************)

\* int(os.getenv("MAX_WORKERS", "1"))
DefaultWorkers == 1

\* The values of MAX_WORKERS: the default and a larger one.
WorkerSettings == {DefaultWorkers, DefaultWorkers + 1}

\* The stages of scheduled_scrape_job: the two crawls and process_articles.
Stages == <<"cnbc", "bloomberg", "process">>

Without(q, i) == SubSeq(q, 1, i - 1) \o SubSeq(q, i + 1, Len(q))

\* An instance is over.  When it was the initial job, run_scheduler goes on to
\* scheduler.start().
Ended(s, i, how) ==
    [s EXCEPT !.inst = Without(@, i),
              !.ended = Append(@, how),
              !.pc = IF s.pc = "initial" THEN "started" ELSE @]

\* A variant without the except clause: the exception leaves the job; in the main
\* thread it ends run_scheduler before the scheduler is started.
CaughtNot(s, i) ==
    [Ended(s, i, "failed") EXCEPT !.propagated = TRUE,
                                  !.pc = IF s.pc = "initial" THEN "dead" ELSE @]

\* except Exception as e: logger.error(...): the job returns normally.
Caught(s, i) == Ended(s, i, "failed")

\* job_defaults: max_instances = max_workers; the executor has max_workers threads.
CanSubmit(s) == Len(s.inst) < s.workers

\* run_scheduler(): the scheduler is configured, the job is added, and the initial
\* scheduled_scrape_job() begins in the main thread.
RunScheduler(w) ==
    /\ sch.pc = "idle"
    /\ sch' = [IdleScheduler EXCEPT !.pc = "initial", !.workers = w,
                                    !.inst = <<Stages[1]>>]
    /\ SchedulerFrame

\* A stage of an instance completes: the next stage, or the end of the job.
JobStep(i) ==
    /\ i \in 1..Len(sch.inst)
    /\ sch' = IF sch.inst[i] = Stages[Len(Stages)]
              THEN Ended(sch, i, "completed")
              ELSE [sch EXCEPT !.inst[i] =
                      Stages[1 + CHOOSE k \in 1..Len(Stages) : Stages[k] = sch.inst[i]]]
    /\ SchedulerFrame

\* A stage of an instance raises (scrape_all, get_db, process_articles).
JobFails(i) ==
    /\ i \in 1..Len(sch.inst)
    /\ sch' = Caught(sch, i)
    /\ SchedulerFrame

\* The interval trigger fires: the job is submitted to the executor unless
\* max_instances instances of it are executing, in which case the run is skipped.
Fire ==
    /\ sch.pc = "started"
    /\ sch.fires < MaxFires
    /\ sch' = [sch EXCEPT !.fires = @ + 1,
                          !.busy = Len(sch.inst),
                          !.submitted = CanSubmit(sch),
                          !.inst = IF CanSubmit(sch) THEN Append(@, Stages[1]) ELSE @]
    /\ SchedulerFrame

NextScheduler ==
    \/ \E w \in WorkerSettings : RunScheduler(w)
    \/ \E i \in 1..MaxFires : JobStep(i)
    \/ \E i \in 1..MaxFires : JobFails(i)
    \/ Fire

SpecScheduler == InitAtRest /\ [][NextScheduler]_vars

\* C30: no exception of a scrape job reaches the scheduler; run_scheduler reaches
\* and keeps its scheduler, a firing of the trigger that finds no instance
\* executing submits the job, whatever instances failed before, and with the
\* default of one worker at most one instance executes at a time.
C30_JobContained ==
    /\ ~sch.propagated
    /\ sch.pc # "dead"
    /\ sch.busy = 0 => sch.submitted
    /\ sch.workers = DefaultWorkers => Len(sch.inst) <= 1

C30_Witness ==
    /\ sch.workers = DefaultWorkers
    /\ sch.pc = "started"
    /\ sch.ended = <<"failed", "failed">>
    /\ sch.fires = 3
    /\ sch.busy = 1 /\ ~sch.submitted
    /\ sch.inst = <<"process">>

====
